---------------------------- MODULE Spec2Model ----------------------------
(***************************************************************************)
(* A model of the Dart data-class generator `dataClass` of flutter-plus.   *)
(*                                                                         *)
(* Four revisions of the command exist in the sources:                     *)
(*   "single" : src/src/commands/data.command.ts  (one class, whole text,  *)
(*              directives read with determineFieldType)                   *)
(*   "lines"  : src/unnamed/part_000  (every class, line scan, directives  *)
(*              read from the comment lines above a field)                 *)
(*   "multi"  : src/unnamed/part_001:7-229 (every class, regex scan,       *)
(*              directives read with determineFieldType)                   *)
(*   "ctor"   : src/unnamed/part_001:238-441 (one class, nullability from  *)
(*              the constructor, copyWith and equality)                    *)
(*                                                                         *)
(* Texts are TLA+ strings; a character is a string of length 1.  The       *)
(* regular expressions of the sources are written out as scanners that     *)
(* find the same match the JavaScript regex engine finds.                  *)
(***************************************************************************)
EXTENDS Integers, Sequences, FiniteSets, TLC

VARIABLES
  variant,     \* which revision of dataClass runs
  editor,      \* vscode.window.activeTextEditor is set
  doc,         \* editor.document.getText(): the buffer
  sel,         \* editor.selection as 0-based offsets [start, end)
  pc,          \* where the command stands: "start" | "suffix" | "style" |
               \*   "scan" | "apply" | "done"
  classCode,   \* the text captured before the prompts
  suffix,      \* the answer to the input box, trimmed
  namingStyle, \* the answer to the quick pick
  lastIndex,   \* classRegex.lastIndex (0-based)
  edits,       \* the edits collected for editor.edit
  diags,       \* the messages given to showErrorMessage, in order
  units,       \* per generated class: its name, fields and emitted entries
  dismissed,   \* history: the prompts that were dismissed without a value
  scanned,     \* history: a regular expression was run on classCode
  applied,     \* history: the edits editor.edit has applied
  convIn,      \* converter harness: the identifier given to convertCase
  convStyle,   \* converter harness: the naming style
  convOut,     \* converter harness: convertCase(convIn)
  convOut2,    \* converter harness: convertCase(convOut)
  convPc,      \* converter harness: "off" | "in" | "once" | "twice"
  rtPc,        \* generated class in use: "off" | "built" | "encoded" | "decoded"
  rtUnit,      \* generated class in use: which generated class (index in units)
  inst,        \* generated class in use: the instance, field name -> value
  map,         \* generated class in use: the result of toMap()
  back,        \* generated class in use: the instance fromMap(map) returns
  userEdits    \* host editor: how often the user changed the document during a prompt

cmdVars == <<variant, editor, doc, sel, pc, classCode, suffix, namingStyle,
             lastIndex, edits, diags, units, dismissed, scanned, applied>>

convVars == <<convIn, convStyle, convOut, convOut2, convPc>>

rtVars == <<rtPc, rtUnit, inst, map, back>>

envVars == <<userEdits>>

vars == <<cmdVars, convVars, rtVars, envVars>>

----------------------------------------------------------------------------
(* Bounds of the model *)

\* longest identifier the converter harness enumerates
MaxLen == 3

----------------------------------------------------------------------------
(* Characters and strings *)

Ch(s, i) == IF 1 <= i /\ i <= Len(s) THEN SubSeq(s, i, i) ELSE ""

\* F applied to the value x: names a value that the body uses several times
With(x, F(_)) == F(x)

CharSet(s) == {Ch(s, i) : i \in 1..Len(s)}

LowerChars == "abcdefghijklmnopqrstuvwxyz"

UpperChars == "ABCDEFGHIJKLMNOPQRSTUVWXYZ"

DigitChars == "0123456789"

LowerSet == CharSet(LowerChars)

UpperSet == CharSet(UpperChars)

\* \w of the regular expressions
WordSet == LowerSet \cup UpperSet \cup CharSet(DigitChars) \cup {"_"}

\* \s of the regular expressions, and what String.trim removes
SpaceSet == {" ", "\n", "\t", "\r"}

\* what `.` does not match
LineTerm == {"\n", "\r"}

UpperOf == [c \in LowerSet |->
              Ch(UpperChars, CHOOSE i \in 1..Len(LowerChars) : Ch(LowerChars, i) = c)]

LowerOf == [c \in UpperSet |->
              Ch(LowerChars, CHOOSE i \in 1..Len(UpperChars) : Ch(UpperChars, i) = c)]

RECURSIVE toUpperCase(_)
toUpperCase(s) ==
  IF s = "" THEN ""
  ELSE (IF Head(s) \in LowerSet THEN UpperOf[Head(s)] ELSE Head(s))
         \o toUpperCase(Tail(s))

RECURSIVE toLowerCase(_)
toLowerCase(s) ==
  IF s = "" THEN ""
  ELSE (IF Head(s) \in UpperSet THEN LowerOf[Head(s)] ELSE Head(s))
         \o toLowerCase(Tail(s))

StartsWithAt(s, i, p) ==
  /\ i >= 1
  /\ i + Len(p) - 1 <= Len(s)
  /\ SubSeq(s, i, i + Len(p) - 1) = p

\* first position in from..to where P holds, 0 when there is none
First(from, to, P(_)) ==
  IF \E i \in from..to : P(i)
  THEN CHOOSE i \in from..to : P(i) /\ \A k \in from..(i - 1) : ~P(k)
  ELSE 0

\* last position in from..to where P holds, 0 when there is none
Last(from, to, P(_)) ==
  IF \E i \in from..to : P(i)
  THEN CHOOSE i \in from..to : P(i) /\ \A k \in (i + 1)..to : ~P(k)
  ELSE 0

\* first position >= from where p occurs in s, 0 when there is none
IndexOf(s, p, from) ==
  LET At(i) == StartsWithAt(s, i, p)
  IN  First(from, Len(s) - Len(p) + 1, At)

includes(s, p) == IndexOf(s, p, 1) # 0

\* first position >= i that holds no character of set (Len(s)+1 at the end)
RunEnd(s, i, set) ==
  LET Stop(j) == j = Len(s) + 1 \/ Ch(s, j) \notin set
  IN  IF i > Len(s) THEN i ELSE First(i, Len(s) + 1, Stop)

\* first position >= i that holds no \w character
WordEnd(s, i) == RunEnd(s, i, WordSet)

\* first position >= i that holds no \s character
SpaceEnd(s, i) == RunEnd(s, i, SpaceSet)

\* first position >= i that holds a line terminator (Len(s)+1 at the end)
LineEnd(s, i) ==
  LET Stop(j) == j = Len(s) + 1 \/ Ch(s, j) \in LineTerm
  IN  IF i > Len(s) THEN i ELSE First(i, Len(s) + 1, Stop)

\* String.prototype.trim
trim(s) ==
  LET Inked(j) == Ch(s, j) \notin SpaceSet
  IN  With(First(1, Len(s), Inked),
           LAMBDA a : IF a = 0 THEN "" ELSE SubSeq(s, a, Last(1, Len(s), Inked)))

\* String.prototype.replace(pattern, by) with a string pattern: the first
\* occurrence only
replaceFirst(s, p, by) ==
  With(IndexOf(s, p, 1),
       LAMBDA i : IF i = 0 THEN s
                  ELSE SubSeq(s, 1, i - 1) \o by \o SubSeq(s, i + Len(p), Len(s)))

----------------------------------------------------------------------------
(* convertCase: the naming-style converters *)

Styles == {"camelCase", "snake_case", "PascalCase", "kebab-case", "original"}

\* str.replace(/_./g, s => s.charAt(1).toUpperCase())
RECURSIVE camelFrom(_, _)
camelFrom(str, i) ==
  IF i > Len(str) THEN ""
  ELSE IF Ch(str, i) = "_" /\ i < Len(str) /\ Ch(str, i + 1) \notin LineTerm
       THEN toUpperCase(Ch(str, i + 1)) \o camelFrom(str, i + 2)
       ELSE Ch(str, i) \o camelFrom(str, i + 1)

camelCase(str) == camelFrom(str, 1)

\* str.replace(/([a-z])([A-Z])/g, "$1" + sep + "$2")
RECURSIVE boundaryFrom(_, _, _)
boundaryFrom(str, sep, i) ==
  IF i > Len(str) THEN ""
  ELSE IF Ch(str, i) \in LowerSet /\ Ch(str, i + 1) \in UpperSet
       THEN Ch(str, i) \o sep \o Ch(str, i + 1) \o boundaryFrom(str, sep, i + 2)
       ELSE Ch(str, i) \o boundaryFrom(str, sep, i + 1)

snake_case(str) == toLowerCase(boundaryFrom(str, "_", 1))

kebab_case(str) == toLowerCase(boundaryFrom(str, "-", 1))

\* the callback with toLowerCase where the source has toUpperCase
pascalPiece_lower(s) == toLowerCase(replaceFirst(s, "_", ""))

\* the callback of PascalCase: s.replace("_", "").toUpperCase()
pascalPiece(s) == toUpperCase(replaceFirst(s, "_", ""))

\* str.replace(/(^\w|_\w)/g, ...): at the first position ^\w is tried first
\* (and \w matches an underscore), elsewhere only _\w can match
RECURSIVE pascalFrom(_, _)
pascalFrom(str, i) ==
  IF i > Len(str) THEN ""
  ELSE IF i = 1 /\ Ch(str, 1) \in WordSet
       THEN pascalPiece(Ch(str, 1)) \o pascalFrom(str, 2)
  ELSE IF Ch(str, i) = "_" /\ Ch(str, i + 1) \in WordSet
       THEN pascalPiece(SubSeq(str, i, i + 1)) \o pascalFrom(str, i + 2)
  ELSE Ch(str, i) \o pascalFrom(str, i + 1)

PascalCase(str) == pascalFrom(str, 1)

convertCase(style, str) ==
  CASE style = "camelCase"  -> camelCase(str)
    [] style = "snake_case" -> snake_case(str)
    [] style = "PascalCase" -> PascalCase(str)
    [] style = "kebab-case" -> kebab_case(str)
    [] OTHER                      -> str

----------------------------------------------------------------------------
(* Class Locator *)

NoMatch == [found |-> FALSE]

\* the word that starts at position k, "" when there is none
WordAt(text, k) == SubSeq(text, k, WordEnd(text, k) - 1)

\* classCode.match(/class\s+(\w+)/): the first "class" that is followed by
\* white space and a word.  Every quantifier is followed by a character its
\* own class excludes, so the greedy runs are the only way to match.
\* i is the position of a "class", 0 when there is none.
RECURSIVE classNameMatch(_, _)
classNameAt(text, i) ==
  With(SpaceEnd(text, i + 5), LAMBDA k :
    IF k > i + 5 /\ Ch(text, k) \in WordSet
    THEN [found |-> TRUE, index |-> i - 1, name |-> WordAt(text, k)]
    ELSE classNameMatch(text, i + 1))

classNameMatch(text, from) ==
  With(IndexOf(text, "class", from),
       LAMBDA i : IF i = 0 THEN NoMatch ELSE classNameAt(text, i))

\* classRegex.exec(classCode) with classRegex = /class\s+(\w+)\s*{([\s\S]*?)}/g
\* and classRegex.lastIndex = from0 (0-based): the body is lazy, so it ends
\* at the first "}" after the opening brace.  index and end are the 0-based
\* offsets classMatch.index and classMatch.index + classMatch[0].length.
RECURSIVE classRegexExecFrom(_, _)
\* the pattern with a greedy body, /class\s+(\w+)\s*{([\s\S]*)}/g: the body
\* runs to the last "}" of the text
classRegexAt_greedy(text, i, k, b, c) ==
  With(Last(b + 1, Len(text), LAMBDA j : Ch(text, j) = "}"), LAMBDA g :
    IF k > i + 5 /\ Ch(text, k) \in WordSet /\ Ch(text, b) = "{" /\ g # 0
    THEN [found |-> TRUE, index |-> i - 1, end |-> g,
          name |-> WordAt(text, k),
          body |-> SubSeq(text, b + 1, g - 1)]
    ELSE classRegexExecFrom(text, i + 1))

\* i: position of "class"; k: start of the name; b: position after the name
\* and the white space that follows it; c: position of the first "}" after b
classRegexAt(text, i, k, b, c) ==
  IF k > i + 5 /\ Ch(text, k) \in WordSet /\ Ch(text, b) = "{" /\ c # 0
  THEN [found |-> TRUE, index |-> i - 1, end |-> c,
        name |-> WordAt(text, k),
        body |-> SubSeq(text, b + 1, c - 1)]
  ELSE classRegexExecFrom(text, i + 1)

classRegexExecFrom(text, from) ==
  With(IndexOf(text, "class", from), LAMBDA i :
    IF i = 0 THEN NoMatch
    ELSE With(SpaceEnd(text, i + 5), LAMBDA k :
           With(SpaceEnd(text, WordEnd(text, k)), LAMBDA b :
             classRegexAt(text, i, k, b, IndexOf(text, "}", b + 1)))))

classRegexExec(text, from0) == classRegexExecFrom(text, from0 + 1)

----------------------------------------------------------------------------
(* Field Extractor *)

dartBuiltInTypes ==
  {"int", "double", "String", "bool", "num", "List", "Map", "Set", "dynamic"}

endsWith(s, p) == Len(s) >= Len(p) /\ SubSeq(s, Len(s) - Len(p) + 1, Len(s)) = p

startsWith(s, p) == StartsWithAt(s, 1, p)

\* /(\w+\??)\s+(\w+);/ tried at position i: a word, an optional "?", white
\* space, a word, ";".  q is the position after the type, k the start of the
\* name, e2 the position after the name; end is the position after the ";".
fieldAtParts(text, i, q, k, e2) ==
  IF q > i /\ k > q /\ e2 > k /\ Ch(text, e2) = ";"
  THEN [found |-> TRUE, type |-> SubSeq(text, i, q - 1),
        name |-> SubSeq(text, k, e2 - 1), end |-> e2 + 1]
  ELSE NoMatch

fieldAt(text, i) ==
  IF Ch(text, i) \notin WordSet THEN NoMatch
  ELSE With(WordEnd(text, i), LAMBDA e1 :
         With(IF Ch(text, e1) = "?" THEN e1 + 1 ELSE e1, LAMBDA q :
           With(SpaceEnd(text, q), LAMBDA k :
             fieldAtParts(text, i, q, k, WordEnd(text, k)))))

\* [...text.matchAll(/(\w+\??)\s+(\w+);/g)] as <<type, name>> pairs: the
\* leftmost match at or after the last index, then the same from its end.
RECURSIVE fieldMatchesFrom(_, _)
fieldMatchesFrom(text, from) ==
  LET Hit(i) == fieldAt(text, i).found
  IN  With(First(from, Len(text), Hit), LAMBDA i :
        IF i = 0 THEN <<>>
        ELSE With(fieldAt(text, i), LAMBDA m :
               <<[type |-> m.type, name |-> m.name]>>
                 \o fieldMatchesFrom(text, m.end)))

fieldMatches(text) == fieldMatchesFrom(text, 1)

\* text.split("\n")
RECURSIVE split(_)
split(text) ==
  With(IndexOf(text, "\n", 1), LAMBDA i :
    IF i = 0 THEN <<text>>
    ELSE <<SubSeq(text, 1, i - 1)>> \o split(SubSeq(text, i + 1, Len(text))))

\* trimmedLine.match(/^final\s+(\w+\??)\s+(\w+);/)
finalFieldMatch(trimmedLine) ==
  With(SpaceEnd(trimmedLine, 6), LAMBDA k :
    IF startsWith(trimmedLine, "final") /\ k > 6
    THEN fieldAt(trimmedLine, k)
    ELSE NoMatch)

----------------------------------------------------------------------------
(* Metadata Interpreter *)

NoParsing == [has |-> FALSE, fromJson |-> "", toJson |-> ""]

\* position of the last "," in positions a..b-1 of s, 0 when there is none
LastComma(s, a, b) ==
  LET Comma(j) == Ch(s, j) = ","
  IN  Last(a, b - 1, Comma)

\* s.match(/Parsing:\s*(.*),\s*(.*)/): after "Parsing:" and white space the
\* greedy (.*) runs to the end of the line and backs up to the last comma of
\* that line; the second group is the rest of the line the match has then
\* reached.  Without a comma there, the next "Parsing:" is tried.
RECURSIVE parsingMatch(_, _)
\* i: position of "Parsing:"; a: start of group 1; c: position of the comma
parsingAt(s, i, a, c) ==
  IF c # 0
  THEN With(SpaceEnd(s, c + 1), LAMBDA b :
         [found |-> TRUE, g1 |-> SubSeq(s, a, c - 1),
          g2 |-> SubSeq(s, b, LineEnd(s, b) - 1)])
  ELSE parsingMatch(s, i + 1)

parsingMatch(s, from) ==
  With(IndexOf(s, "Parsing:", from), LAMBDA i :
    IF i = 0 THEN NoMatch
    ELSE With(SpaceEnd(s, i + 8), LAMBDA a :
           parsingAt(s, i, a, LastComma(s, a, LineEnd(s, a)))))

\* last position in a..b-1 of s that holds no line terminator, 0 if none
LastInline(s, a, b) ==
  LET Inline(j) == Ch(s, j) \notin LineTerm
  IN  Last(a, b - 1, Inline)

\* new RegExp(`${name};\\s*//\\s*(.+)`, "g").exec(text): group 1 of the first
\* match, the rest of the line that follows "name;", white space, "//" and
\* white space (white space includes line breaks).  When only white space
\* follows "//" the second \s* backs up until (.+) finds one character.
RECURSIVE commentMatch(_, _, _)
\* i: position of "name;"; k: position of "//" if it is there; n: position
\* after the white space that follows "//"
commentAt(text, name, i, k, n) ==
  With(IF n <= Len(text) THEN n ELSE LastInline(text, k + 2, n), LAMBDA p :
    IF StartsWithAt(text, k, "//") /\ p # 0
    THEN [found |-> TRUE, g1 |-> SubSeq(text, p, LineEnd(text, p) - 1)]
    ELSE commentMatch(text, name, i + 1))

commentMatch(text, name, from) ==
  With(IndexOf(text, name \o ";", from), LAMBDA i :
    IF i = 0 THEN NoMatch
    ELSE With(SpaceEnd(text, i + Len(name) + 1), LAMBDA k :
           commentAt(text, name, i, k, SpaceEnd(text, k + 2))))

NoDirectives == [isEnum |-> FALSE, customParsing |-> NoParsing]

\* one iteration of the loop over commentLines in determineFieldType
readDirective(line, acc) ==
  IF startsWith(line, "Type: enum")
  THEN [acc EXCEPT !.isEnum = TRUE]
  ELSE IF startsWith(line, "Parsing:")
  THEN With(parsingMatch(line, 1), LAMBDA m :
         IF m.found
         THEN [acc EXCEPT !.customParsing =
                 [has |-> TRUE, fromJson |-> trim(m.g1), toJson |-> trim(m.g2)]]
         ELSE acc)
  ELSE acc

\* the loop over commentLines in determineFieldType
RECURSIVE readDirectives(_, _)
readDirectives(commentLines, acc) ==
  IF commentLines = <<>> THEN acc
  ELSE readDirectives(Tail(commentLines), readDirective(trim(Head(commentLines)), acc))

\* what determineFieldType returns, given the directives d it has read
fieldTypeOf(cleanType, d) ==
  IF cleanType \in dartBuiltInTypes
  THEN [isEnum |-> FALSE, isClass |-> FALSE, customParsing |-> d.customParsing]
  ELSE [isEnum |-> d.isEnum, isClass |-> ~d.isEnum, customParsing |-> d.customParsing]

\* determineFieldType(type, name, classCode) of the regex-scan variants
determineFieldType(type, name, text) ==
  With(commentMatch(text, name, 1), LAMBDA cm :
    fieldTypeOf(replaceFirst(type, "?", ""),
                IF cm.found THEN readDirectives(split(cm.g1), NoDirectives)
                ELSE NoDirectives))

\* the field object built from a match m = <<type, name>> and the result t of
\* determineFieldType
fieldObject(m, style, nullable, t) ==
  [type          |-> m.type,
   name          |-> m.name,
   snakeName     |-> convertCase(style, m.name),
   nullable      |-> nullable,
   isEnum        |-> t.isEnum,
   isClass       |-> t.isClass,
   customParsing |-> t.customParsing]

mapMatches(ms, F(_)) == [i \in 1..Len(ms) |-> F(ms[i])]

\* the field objects of the regex-scan variants ("single", "multi"):
\* fieldMatches.map(([_, type, name]) => ...), text being the whole scanned
\* text ("single") or the class body ("multi")
fieldsByRegex(text, style) ==
  mapMatches(fieldMatches(text),
             LAMBDA m : fieldObject(m, style, endsWith(m.type, "?"),
                                    determineFieldType(m.type, m.name, text)))

\* the comment lines directly above lines[j+1], "//" and white space removed,
\* each followed by a line break (the while loop of the line-scan variant)
RECURSIVE commentBlock(_, _)
commentBlock(lines, j) ==
  IF j < 1 THEN ""
  ELSE With(trim(lines[j]), LAMBDA t :
         IF startsWith(t, "//")
         THEN commentBlock(lines, j - 1) \o trim(SubSeq(t, 3, Len(t))) \o "\n"
         ELSE "")

\* isEnum, isClass and customParsing as the line-scan variant sets them from
\* the comment block above a field
blockDirectives(type, block) ==
  With(includes(block, "Type: enum"), LAMBDA enum :
    With(parsingMatch(block, 1), LAMBDA pm :
      [isEnum        |-> enum,
       isClass       |-> IF enum THEN FALSE
                         ELSE replaceFirst(type, "?", "") \notin dartBuiltInTypes,
       customParsing |-> IF pm.found
                         THEN [has |-> TRUE, fromJson |-> trim(pm.g1),
                               toJson |-> trim(pm.g2)]
                         ELSE NoParsing]))

\* the for loop of the line-scan variant from line i on: the field objects
\* pushed
RECURSIVE lineFieldsFrom(_, _, _)
lineFieldsFrom(lines, i, style) ==
  IF i > Len(lines) THEN <<>>
  ELSE With(finalFieldMatch(trim(lines[i])), LAMBDA m :
         (IF m.found
          THEN <<fieldObject(m, style, endsWith(m.type, "?"),
                             blockDirectives(m.type, commentBlock(lines, i - 1)))>>
          ELSE <<>>)
         \o lineFieldsFrom(lines, i + 1, style))

\* the field objects of the line-scan variant ("lines")
fieldsByLines(classBody, style) ==
  lineFieldsFrom(split(classBody), 1, style)

\* U+0008 cannot be written in a TLA+ string; "~" stands for it: like U+0008
\* it is no \w and no \s character, it is no ")" and `.` matches it
BS == "~"

\* classCode.match(new RegExp(`\b${className}\s*\(([^)]*)\)`, "s"))?.[1]?.trim()
\* In the template literal `\b` is the character U+0008, `\s` is "s" and
\* `\(`, `\)` are plain parentheses, so the pattern is
\* U+0008 className s* (([^)]*)): group 1 runs from the end of the s-run to
\* the first ")" or to the end of the text.  "" when there is no match.
constructorParams(text, className) ==
  With(IndexOf(text, BS \o className, 1), LAMBDA i :
    IF i = 0 THEN ""
    ELSE With(RunEnd(text, i + 1 + Len(className), {"s"}), LAMBDA a :
           With(IndexOf(text, ")", a), LAMBDA c :
             trim(SubSeq(text, a, IF c = 0 THEN Len(text) ELSE c - 1)))))

\* new RegExp(`(required\s+)?this.${name}`).test(params): the group is
\* optional, so this is "this", one character that is no line break, name
thisFieldTest(params, name) ==
  \E i \in 1..Len(params) :
    /\ StartsWithAt(params, i, "this")
    /\ i + 4 <= Len(params)
    /\ Ch(params, i + 4) \notin LineTerm
    /\ StartsWithAt(params, i + 5, name)

\* nullable as the constructor-aware variant sets it
nullableByConstructor(params, m) ==
  IF params # "" THEN ~thisFieldTest(params, m.name) ELSE endsWith(m.type, "?")

\* the field objects of the constructor-aware variant ("ctor"); it reads no
\* directives, so isEnum, isClass and customParsing stay at their defaults
fieldsByConstructor(text, className, style) ==
  With(constructorParams(text, className), LAMBDA params :
    mapMatches(fieldMatches(text),
               LAMBDA m : fieldObject(m, style, nullableByConstructor(params, m),
                                      [isEnum |-> FALSE, isClass |-> FALSE,
                                       customParsing |-> NoParsing])))

----------------------------------------------------------------------------
(* Code Synthesizer *)

RECURSIVE join(_, _)
join(parts, sep) ==
  IF parts = <<>> THEN ""
  ELSE IF Len(parts) = 1 THEN parts[1]
  ELSE parts[1] \o sep \o join(Tail(parts), sep)

mapAccess(f) == "map['" \o f.snakeName \o "']"

\* the callback of fields.map in generateFactoryMethods
fromMapEntry(v, f) ==
  IF v = "ctor"
  THEN f.name \o ": " \o mapAccess(f) \o " as " \o replaceFirst(f.type, "?", "")
         \o (IF f.nullable THEN "?" ELSE "") \o ","
  ELSE IF f.customParsing.has /\ f.customParsing.fromJson # ""
  THEN f.name \o ": " \o replaceFirst(f.customParsing.fromJson, "value", mapAccess(f)) \o ","
  ELSE IF f.isEnum
  THEN f.name \o ": " \o f.name \o "FromString(" \o mapAccess(f) \o "),"
  ELSE IF f.isClass
  THEN f.name \o ": " \o mapAccess(f) \o " != null ? "
         \o (IF v = "lines" THEN replaceFirst(f.type, "?", "") ELSE f.type)
         \o ".fromMap(" \o mapAccess(f) \o ") : null,"
  ELSE f.name \o ": " \o mapAccess(f) \o ","

\* the callback of fields.map in generateToMapAndJson
toMapEntry(v, f) ==
  IF v = "ctor"
  THEN "  '" \o f.snakeName \o "': " \o f.name \o ","
  ELSE IF f.customParsing.has /\ f.customParsing.toJson # ""
  THEN "'" \o f.snakeName \o "': " \o replaceFirst(f.customParsing.toJson, "value", f.name) \o ","
  ELSE IF f.isEnum
  THEN "'" \o f.snakeName \o "': " \o f.name \o "ToString(" \o f.name \o "),"
  ELSE IF f.isClass
  THEN "'" \o f.snakeName \o "': " \o f.name \o "?.toMap(),"
  ELSE "'" \o f.snakeName \o "': " \o f.name \o ","

\* the callback of fields.map in generateConstructor
constructorEntry(f) == (IF f.nullable THEN "" ELSE "required ") \o "this." \o f.name \o ","

fromMapEntries(v, fields) == [i \in 1..Len(fields) |-> fromMapEntry(v, fields[i])]

toMapEntries(v, fields) == [i \in 1..Len(fields) |-> toMapEntry(v, fields[i])]

constructorEntries(fields) == [i \in 1..Len(fields) |-> constructorEntry(fields[i])]

generateFieldDeclarations(v, fields) ==
  join([i \in 1..Len(fields) |->
          (IF v = "ctor" THEN "  final " ELSE "final ")
            \o fields[i].type \o " " \o fields[i].name \o ";"],
       IF v = "ctor" THEN "\n" ELSE "\n  ")

generateConstructor(v, dtoClassName, fields) ==
  (IF v = "lines" THEN "" ELSE "\n  ")
    \o "const " \o dtoClassName \o "({\n    "
    \o join(constructorEntries(fields), "\n    ")
    \o "\n  });"
    \o (IF v = "lines" THEN "" ELSE "\n  ")

generateFactoryMethods(v, dtoClassName, fields) ==
  CASE v = "single" ->
         "factory " \o dtoClassName \o ".fromMap(Map<String, dynamic> map) => "
           \o dtoClassName \o "(\n    "
           \o join(fromMapEntries(v, fields), "\n    ")
           \o "\n      );\n\n  factory " \o dtoClassName \o ".fromJson(String source) =>\n      "
           \o dtoClassName \o ".fromMap(json.decode(source));\n  "
    [] v = "lines" ->
         "factory " \o dtoClassName \o ".fromMap(Map<String, dynamic> map) => "
           \o dtoClassName \o "(\n    "
           \o join(fromMapEntries(v, fields), "\n    ")
           \o "\n  );\n\n  factory " \o dtoClassName \o ".fromJson(String source) =>\n      "
           \o dtoClassName \o ".fromMap(json.decode(source));"
    [] v = "multi" ->
         "\n  factory " \o dtoClassName \o ".fromMap(Map<String, dynamic> map) => "
           \o dtoClassName \o "(\n    "
           \o join(fromMapEntries(v, fields), "\n    ")
           \o "\n  );\n\n  factory " \o dtoClassName \o ".fromJson(String source) =>\n      "
           \o dtoClassName \o ".fromMap(json.decode(source));\n  "
    [] OTHER ->
         "\n  factory " \o dtoClassName \o ".fromMap(Map<String, dynamic> map,\n   ) => "
           \o dtoClassName \o "(\n    "
           \o join(fromMapEntries(v, fields), "")
           \o "\n  );\n\n  factory " \o dtoClassName \o ".fromJson(String source) =>\n      "
           \o dtoClassName
           \o ".fromMap(\n         json.decode(source) as Map<String, dynamic>,\n      );\n   "

generateToMapAndJson(v, fields) ==
  (IF v \in {"multi", "ctor"} THEN "\n  " ELSE "")
    \o "Map<String, dynamic> toMap() => {\n    "
    \o join(toMapEntries(v, fields), "\n    ")
    \o "\n  };\n\n  String toJson() => json.encode(toMap()"
    \o (IF v = "ctor" THEN ",);" ELSE ");")
    \o (IF v \in {"multi", "ctor"} THEN "\n  " ELSE "")

toStringEntries(fields) ==
  [i \in 1..Len(fields) |-> fields[i].name \o ": $" \o fields[i].name]

generateToString(v, dtoClassName, fields) ==
  (IF v \in {"single", "multi"} THEN "\n  " ELSE "")
    \o "@override\n  String toString() => '" \o dtoClassName \o "("
    \o join(toStringEntries(fields), ", ")
    \o ")';"
    \o (IF v = "multi" THEN "\n  " ELSE IF v = "ctor" THEN "\n" ELSE "")

\* generateCopyWith of the constructor-aware variant
generateCopyWith(dtoClassName, fields) ==
  dtoClassName \o " copyWith({\n    "
    \o join([i \in 1..Len(fields) |->
               (IF endsWith(fields[i].type, "?") THEN fields[i].type
                ELSE fields[i].type \o "?") \o " " \o fields[i].name \o ","],
            "\n    ")
    \o "\n  }) => " \o dtoClassName \o "(\n    "
    \o join([i \in 1..Len(fields) |->
               fields[i].name \o ": " \o fields[i].name \o " ?? this."
                 \o fields[i].name \o ","],
            "\n    ")
    \o "\n  );"

\* generateEquality of the constructor-aware variant
generateEquality(dtoClassName, fields, hasEquatable) ==
  IF hasEquatable
  THEN "\n  @override\n  List<Object?> get props => ["
         \o join([i \in 1..Len(fields) |-> fields[i].name], ",")
         \o "];\n  "
  ELSE "\n  @override\n  bool operator ==(Object other) =>\n      identical(this, other) ||\n      other is "
         \o dtoClassName \o " &&\n      "
         \o join([i \in 1..Len(fields) |->
                    "other." \o fields[i].name \o " == " \o fields[i].name \o " &&"],
                 "\n      ")
         \o " true;\n\n  @override\n  int get hashCode => "
         \o join([i \in 1..Len(fields) |-> fields[i].name \o ".hashCode ^"], "\n      ")
         \o " 0;\n  "

\* the template literal classTemplate / updatedClass around its generated
\* parts
templateText(v, dtoClassName, hasEquatable, decl, ctor, fact, copy, tomp, tstr, eq) ==
  CASE v = "single" ->
         "\nimport 'dart:convert';\nimport 'package:meta/meta.dart';\n\n@immutable\nclass "
           \o dtoClassName \o " {\n  " \o decl \o "\n  " \o ctor \o "\n  " \o fact
           \o "\n  " \o tomp \o "\n  " \o tstr \o "\n}\n\n"
    [] v = "lines" ->
         "class " \o dtoClassName \o " {\n  " \o decl \o "\n  \n  " \o ctor
           \o "\n  \n  " \o fact \o "\n  \n  " \o tomp \o "\n  \n  " \o tstr \o "\n}"
    [] v = "multi" ->
         "\nclass " \o dtoClassName \o " {\n  " \o decl \o "\n  " \o ctor \o "\n  "
           \o fact \o "\n  " \o tomp \o "\n  " \o tstr \o "\n}\n"
    [] OTHER ->
         "\nimport 'dart:convert';\n"
           \o (IF hasEquatable THEN "import 'package:equatable/equatable.dart';\n" ELSE "")
           \o "import 'package:meta/meta.dart';\n\n@immutable\nclass " \o dtoClassName
           \o " " \o (IF hasEquatable THEN "extends Equatable" ELSE "") \o " {\n"
           \o decl \o "\n" \o ctor \o "\n" \o fact \o "\n"
           \o copy \o "\n" \o tomp \o "\n" \o tstr
           \o "\n" \o eq \o "\n}\n"

\* classTemplate.trim() / updatedClass.trim(): the replacement text
classTemplate(v, dtoClassName, fields, hasEquatable) ==
  trim(templateText(v, dtoClassName, hasEquatable,
                    generateFieldDeclarations(v, fields),
                    generateConstructor(v, dtoClassName, fields),
                    generateFactoryMethods(v, dtoClassName, fields),
                    generateCopyWith(dtoClassName, fields),
                    generateToMapAndJson(v, fields),
                    generateToString(v, dtoClassName, fields),
                    generateEquality(dtoClassName, fields, hasEquatable)))

----------------------------------------------------------------------------
(* Orchestrator: the command dataClass *)

Variants == {"single", "lines", "multi", "ctor"}

MultiClass == {"lines", "multi"}

Min2(a, b) == IF a <= b THEN a ELSE b

\* editor.document.getText(selection)
getText(text, selection) == SubSeq(text, selection.start + 1, selection.end)

\* editor.edit(editBuilder => edits.forEach(replace)): the ranges are in
\* increasing order and disjoint, so replacing from the last to the first
\* keeps the offsets of the ones still to do.  positionAt clamps an offset
\* to the length of the document.
RECURSIVE applyEdits(_, _, _)
replaceRange(text, a, b, newText) ==
  SubSeq(text, 1, a) \o newText \o SubSeq(text, b + 1, Len(text))

applyEdits(text, es, k) ==
  IF k = 0 THEN text
  ELSE applyEdits(replaceRange(text, Min2(es[k].start, Len(text)),
                               Min2(es[k].end, Len(text)), es[k].newText),
                  es, k - 1)

\* the fields of one class as the running variant extracts them; text is the
\* whole scanned text in the single-class variants, the class body otherwise
fieldsOf(v, text, className, style) ==
  CASE v = "lines" -> fieldsByLines(text, style)
    [] v = "ctor"  -> fieldsByConstructor(text, className, style)
    [] OTHER       -> fieldsByRegex(text, style)

unitOf(v, className, fields) ==
  [className |-> className,
   fields    |-> fields,
   ctor      |-> constructorEntries(fields),
   fromMap   |-> fromMapEntries(v, fields),
   toMap     |-> toMapEntries(v, fields),
   toStr     |-> toStringEntries(fields)]

\* the converter is not running while the command is modelled
ConvOff ==
  /\ convIn = ""
  /\ convStyle = "original"
  /\ convOut = ""
  /\ convOut2 = ""
  /\ convPc = "off"

\* no generated class is in use yet
RtOff ==
  /\ rtPc = "off"
  /\ rtUnit = 0
  /\ inst = <<>>
  /\ map = <<>>
  /\ back = <<>>

\* the state when the command is invoked on one of the given scenarios
CmdInit(scenarios) ==
  /\ variant \in Variants
  /\ editor \in BOOLEAN
  /\ \E sc \in scenarios :
       /\ doc = IF editor THEN sc.text ELSE ""
       /\ sel = IF editor THEN [start |-> sc.selStart, end |-> sc.selEnd]
                ELSE [start |-> 0, end |-> 0]
  /\ pc = "start"
  /\ classCode = ""
  /\ suffix = ""
  /\ namingStyle = ""
  /\ lastIndex = 0
  /\ edits = <<>>
  /\ diags = <<>>
  /\ units = <<>>
  /\ dismissed = {}
  /\ scanned = FALSE
  /\ applied = <<>>
  /\ userEdits = 0
  /\ ConvOff
  /\ RtOff

\* if (!editor) return showErrorMessage("No active editor found.")
NoActiveEditor ==
  /\ pc = "start"
  /\ ~editor
  /\ diags' = Append(diags, "No active editor found.")
  /\ pc' = "done"
  /\ UNCHANGED <<variant, editor, doc, sel, classCode, suffix, namingStyle,
                 lastIndex, edits, units, dismissed, scanned, applied, convVars, rtVars, envVars>>

\* classCode = getText(selection).trim() || getText(); then showInputBox
Invoke ==
  /\ pc = "start"
  /\ editor
  /\ \E t \in {trim(getText(doc, sel))} : classCode' = (IF t # "" THEN t ELSE doc)
  /\ pc' = "suffix"
  /\ UNCHANGED <<variant, editor, doc, sel, suffix, namingStyle, lastIndex,
                 edits, diags, units, dismissed, scanned, applied, convVars, rtVars, envVars>>

\* the input box resolves with a string: suffix = answer.trim(); then
\* showQuickPick
SuffixGiven(answers) ==
  /\ pc = "suffix"
  /\ \E a \in answers : suffix' = trim(a)
  /\ pc' = "style"
  /\ UNCHANGED <<variant, editor, doc, sel, classCode, namingStyle, lastIndex,
                 edits, diags, units, dismissed, scanned, applied, convVars, rtVars, envVars>>

\* the input box is dismissed: it resolves with undefined and
\* undefined?.trim() ?? "" is ""; then showQuickPick
SuffixDismissed ==
  /\ pc = "suffix"
  /\ suffix' = ""
  /\ dismissed' = dismissed \cup {"suffix"}
  /\ pc' = "style"
  /\ UNCHANGED <<variant, editor, doc, sel, classCode, namingStyle, lastIndex,
                 edits, diags, units, scanned, applied, convVars, rtVars, envVars>>

\* the quick pick is dismissed: if (!namingStyle) return showErrorMessage(...)
StyleDismissed ==
  /\ pc = "style"
  /\ dismissed' = dismissed \cup {"style"}
  /\ diags' = Append(diags, "No naming style selected.")
  /\ pc' = "done"
  /\ UNCHANGED <<variant, editor, doc, sel, classCode, suffix, namingStyle,
                 lastIndex, edits, units, scanned, applied, convVars, rtVars, envVars>>

\* the quick pick resolves with one of its items
StyleChosen(answers) ==
  /\ pc = "style"
  /\ \E st \in answers : namingStyle' = st
  /\ pc' = "scan"
  /\ UNCHANGED <<variant, editor, doc, sel, classCode, suffix, lastIndex,
                 edits, diags, units, dismissed, scanned, applied, convVars, rtVars, envVars>>

\* single-class variants: if (!classNameMatch) return showErrorMessage(...)
SingleNoClass ==
  /\ pc = "scan"
  /\ variant \notin MultiClass
  /\ ~classNameMatch(classCode, 1).found
  /\ scanned' = TRUE
  /\ diags' = Append(diags, "No valid Dart class found.")
  /\ pc' = "done"
  /\ UNCHANGED <<variant, editor, doc, sel, classCode, suffix, namingStyle,
                 lastIndex, edits, units, dismissed, applied, convVars, rtVars, envVars>>

\* single-class variants: if (!fieldMatches.length) return showErrorMessage(...)
SingleNoFields ==
  /\ pc = "scan"
  /\ variant \notin MultiClass
  /\ classNameMatch(classCode, 1).found
  /\ fieldMatches(classCode) = <<>>
  /\ scanned' = TRUE
  /\ diags' = Append(diags, "No valid fields found in class.")
  /\ pc' = "done"
  /\ UNCHANGED <<variant, editor, doc, sel, classCode, suffix, namingStyle,
                 lastIndex, edits, units, dismissed, applied, convVars, rtVars, envVars>>

\* single-class variants: the class is generated and editor.edit is called
\* with one replacement of the whole document
SingleGenerate ==
  /\ pc = "scan"
  /\ variant \notin MultiClass
  /\ \E m \in {classNameMatch(classCode, 1)} :
       /\ m.found
       /\ \E fields \in {fieldsOf(variant, classCode, m.name, namingStyle)} :
            /\ fields # <<>>
            /\ units' = Append(units, unitOf(variant, m.name, fields))
            /\ edits' = <<[start   |-> 0,
                           end     |-> Len(doc),
                           newText |-> classTemplate(variant, m.name \o suffix, fields,
                                                     includes(classCode, "Equatable"))]>>
  /\ scanned' = TRUE
  /\ pc' = "apply"
  /\ UNCHANGED <<variant, editor, doc, sel, classCode, suffix, namingStyle,
                 lastIndex, diags, dismissed, applied, convVars, rtVars, envVars>>

\* the iteration with `return` where the source has `continue`
ClassWithoutFields_returns ==
  /\ pc = "scan"
  /\ variant \in MultiClass
  /\ \E m \in {classRegexExec(classCode, lastIndex)} :
       /\ m.found
       /\ fieldsOf(variant, m.body, m.name, namingStyle) = <<>>
       /\ diags' = Append(diags, "No valid fields found in class " \o m.name \o ".")
       /\ lastIndex' = m.end
  /\ scanned' = TRUE
  /\ pc' = "done"
  /\ UNCHANGED <<variant, editor, doc, sel, classCode, suffix, namingStyle,
                 edits, units, dismissed, applied, convVars, rtVars, envVars>>

\* multi-class variants, one iteration of the while loop: the class has no
\* field, showErrorMessage(...) and continue
ClassWithoutFields ==
  /\ pc = "scan"
  /\ variant \in MultiClass
  /\ \E m \in {classRegexExec(classCode, lastIndex)} :
       /\ m.found
       /\ fieldsOf(variant, m.body, m.name, namingStyle) = <<>>
       /\ diags' = Append(diags, "No valid fields found in class " \o m.name \o ".")
       /\ lastIndex' = m.end
  /\ scanned' = TRUE
  /\ UNCHANGED <<variant, editor, doc, sel, pc, classCode, suffix, namingStyle,
                 edits, units, dismissed, applied, convVars, rtVars, envVars>>

\* multi-class variants, one iteration of the while loop: the class is
\* generated and its edit pushed
ClassWithFields ==
  /\ pc = "scan"
  /\ variant \in MultiClass
  /\ \E m \in {classRegexExec(classCode, lastIndex)} :
       /\ m.found
       /\ \E fields \in {fieldsOf(variant, m.body, m.name, namingStyle)} :
            /\ fields # <<>>
            /\ units' = Append(units, unitOf(variant, m.name, fields))
            /\ edits' = Append(edits,
                               [start   |-> m.index,
                                end     |-> m.end,
                                newText |-> classTemplate(variant, m.name \o suffix,
                                                          fields, FALSE)])
       /\ lastIndex' = m.end
  /\ scanned' = TRUE
  /\ UNCHANGED <<variant, editor, doc, sel, pc, classCode, suffix, namingStyle,
                 diags, dismissed, applied, convVars, rtVars, envVars>>

\* the end of the loop without the test of edits.length
NoClassToUpdate_silent ==
  /\ pc = "scan"
  /\ variant \in MultiClass
  /\ ~classRegexExec(classCode, lastIndex).found
  /\ edits = <<>>
  /\ scanned' = TRUE
  /\ pc' = "apply"
  /\ UNCHANGED <<variant, editor, doc, sel, classCode, suffix, namingStyle,
                 lastIndex, edits, diags, units, dismissed, applied, convVars, rtVars, envVars>>

\* multi-class variants, after the loop: if (edits.length === 0) return
\* showErrorMessage("No Dart class found to update.")
NoClassToUpdate ==
  /\ pc = "scan"
  /\ variant \in MultiClass
  /\ ~classRegexExec(classCode, lastIndex).found
  /\ edits = <<>>
  /\ scanned' = TRUE
  /\ diags' = Append(diags, "No Dart class found to update.")
  /\ pc' = "done"
  /\ UNCHANGED <<variant, editor, doc, sel, classCode, suffix, namingStyle,
                 lastIndex, edits, units, dismissed, applied, convVars, rtVars, envVars>>

\* multi-class variants, after the loop: editor.edit is called
LoopDone ==
  /\ pc = "scan"
  /\ variant \in MultiClass
  /\ ~classRegexExec(classCode, lastIndex).found
  /\ edits # <<>>
  /\ scanned' = TRUE
  /\ pc' = "apply"
  /\ UNCHANGED <<variant, editor, doc, sel, classCode, suffix, namingStyle,
                 lastIndex, edits, diags, units, dismissed, applied, convVars, rtVars, envVars>>

\* editor.edit applies the collected replacements in one transaction
ApplyEdits ==
  /\ pc = "apply"
  /\ doc' = applyEdits(doc, edits, Len(edits))
  /\ applied' = edits
  /\ pc' = "done"
  /\ UNCHANGED <<variant, editor, sel, classCode, suffix, namingStyle,
                 lastIndex, edits, diags, units, dismissed, scanned, convVars, rtVars, envVars>>

----------------------------------------------------------------------------
(* The generated class in use: what the emitted constructor, toMap and      *)
(* fromMap texts do when Dart runs them                                     *)

\* the values a field of a built-in type holds
Values == {1, 2}

\* the key of an entry of the emitted map literal: the text in its first
\* pair of quotes
entryKey(e) ==
  With(IndexOf(e, "'", 1), LAMBDA a : SubSeq(e, a + 1, IndexOf(e, "'", a + 1) - 1))

\* the value expression of an entry of the emitted map literal
entryValue(e) == SubSeq(e, IndexOf(e, "': ", 1) + 3, Len(e) - 1)

\* the named argument an entry of the emitted fromMap passes to the constructor
argName(e) == SubSeq(e, 1, IndexOf(e, ": ", 1) - 1)

\* the key an entry of the emitted fromMap looks up: map['<key>']
argKey(e) ==
  With(IndexOf(e, "map['", 1), LAMBDA a : SubSeq(e, a + 5, IndexOf(e, "']", a) - 1))

\* Dart's map literal { 'k1': e1, 'k2': e2, ... } evaluated on the instance
\* object: an entry whose key occurred before replaces the earlier value
mapLiteral(entries, object) ==
  [k \in {entryKey(entries[i]) : i \in DOMAIN entries} |->
     LET Keyed(i) == entryKey(entries[i]) = k
     IN  object[entryValue(entries[Last(1, Len(entries), Keyed)])]]

\* Dart's map[key]: null for a key the map does not hold
lookup(m, k) == IF k \in DOMAIN m THEN m[k] ELSE "null"

\* the emitted Name.fromMap(map): the constructor called with the named
\* arguments of the entries
fromMapCall(entries, m) ==
  [n \in {argName(entries[i]) : i \in DOMAIN entries} |->
     LET Named(i) == argName(entries[i]) = n
     IN  lookup(m, argKey(entries[First(1, Len(entries), Named)]))]

\* every field is emitted as a plain value: built-in type, no directive
plainFields(fields) ==
  \A i \in DOMAIN fields :
    /\ replaceFirst(fields[i].type, "?", "") \in dartBuiltInTypes
    /\ ~fields[i].isEnum
    /\ ~fields[i].isClass
    /\ ~fields[i].customParsing.has

\* the field names are pairwise different, as Dart requires of a class
distinctNames(fields) ==
  \A i, j \in DOMAIN fields : fields[i].name = fields[j].name => i = j

\* an instance of a generated class is constructed: const Name({...})
Construct ==
  /\ pc = "done"
  /\ applied # <<>>
  /\ rtPc = "off"
  /\ \E k \in DOMAIN units :
       /\ plainFields(units[k].fields)
       /\ distinctNames(units[k].fields)
       /\ rtUnit' = k
       /\ inst' \in [{units[k].fields[i].name : i \in DOMAIN units[k].fields} -> Values]
  /\ rtPc' = "built"
  /\ UNCHANGED <<cmdVars, convVars, map, back, envVars>>

\* instance.toMap()
RunToMap ==
  /\ rtPc = "built"
  /\ map' = mapLiteral(units[rtUnit].toMap, inst)
  /\ rtPc' = "encoded"
  /\ UNCHANGED <<cmdVars, convVars, rtUnit, inst, back, envVars>>

\* Name.fromMap(map)
RunFromMap ==
  /\ rtPc = "encoded"
  /\ back' = fromMapCall(units[rtUnit].fromMap, map)
  /\ rtPc' = "decoded"
  /\ UNCHANGED <<cmdVars, convVars, rtUnit, inst, map, envVars>>

----------------------------------------------------------------------------
(* The command on the documents of the scenarios *)

\* what the user may type into the input box
SuffixAnswers == {"", "DTO", " Dto "}

Scan ==
  \/ SingleNoClass
  \/ SingleNoFields
  \/ SingleGenerate
  \/ ClassWithoutFields
  \/ ClassWithFields
  \/ NoClassToUpdate
  \/ LoopDone

RoundTrip ==
  \/ Construct
  \/ RunToMap
  \/ RunFromMap

Next ==
  \/ NoActiveEditor
  \/ Invoke
  \/ SuffixGiven(SuffixAnswers)
  \/ SuffixDismissed
  \/ StyleDismissed
  \/ StyleChosen(Styles)
  \/ Scan
  \/ ApplyEdits
  \/ RoundTrip

Whole(text) == [text |-> text, selStart |-> 0, selEnd |-> 0]

\* the documents and selections the command is invoked on
Scenarios ==
  { Whole("void main() {}\n"),
    Whole("class User {\n  final String name;\n  final int? age;\n}\n"),
    Whole("class A {\n  final int x;\n}\n\nclass B {\n}\n"),
    Whole("class B {\n}\nclass A {\n  final int x;\n}\n"),
    Whole("class B {\n}\n"),
    Whole("class B {\n}\nclass C {\n  // empty\n}\n"),
    Whole("class A {\n  final int x;\n}\nclass B {\n  final Count c; // Type: enum\n}"),
    [text |-> "// header\nclass A {\n  final int x;\n}\n", selStart |-> 10, selEnd |-> 37],
    [text |-> "int top;\n\nclass A {\n}\n", selStart |-> 8, selEnd |-> 10],
    Whole("class B extends Equatable {\n  final int y;\n}"),
    \* names that one naming style converts to the same key
    Whole("class Acct {\n  final int user_id;\n  final int userId;\n}"),
    \* both directives, one per line, after the declaration
    Whole("class Item {\n  final Kind kind; // Type: enum\n  // Parsing: Kind.parse(value), value.code\n}"),
    \* both directives, one per line, above the declaration
    Whole("class Item {\n  // Type: enum\n  // Parsing: Kind.parse(value), value.code\n  final Kind kind;\n}"),
    \* the placeholder more than once in an expression
    Whole("class P {\n  final Count c; // Parsing: f(value, value), g(value) + value\n}"),
    Whole("class P {\n  // Parsing: f(value, value), g(value) + value\n  final Count c;\n}"),
    \* the enum directive on a built-in type and on another type
    Whole("class T {\n  final Count count; // Type: enum\n  final String status; // Type: enum\n}"),
    \* a field whose name ends the name of a commented field
    Whole("class U {\n  final Role userid; // Type: enum\n  final Tag id;\n}"),
    \* a constructor whose parameter list disagrees with the ? markers
    Whole("class User {\n  final int? age;\n  final String name;\n  User({required this.age, this.name});\n}"),
    \* the same after the character U+0008
    Whole("class User {\n  final int? age;\n  final String name;\n  " \o BS
            \o "User({this.age, required this.name});\n}") }

Init == CmdInit(Scenarios)

Spec == Init /\ [][Next]_vars

----------------------------------------------------------------------------
(* Claims about the command (checked under Spec) *)

\* the command has left its scan: the edits and diagnostics are final
ScanOver == scanned /\ pc \in {"apply", "done"}

\* C1: if either prompt (suffix input box, naming-style quick pick) is
\* dismissed without a value, the operation aborts: no text is scanned
\* afterwards and no edit is collected or applied.
C1_DismissalAborts ==
  dismissed # {} => (~scanned /\ edits = <<>> /\ applied = <<>>)

\* every class declaration the multi-class pattern matches in text, in order
RECURSIVE matchedClasses(_, _)
matchedClasses(text, from0) ==
  LET m == classRegexExec(text, from0)
  IN  IF m.found THEN <<m>> \o matchedClasses(text, m.end) ELSE <<>>

hasFields(m) == fieldsOf(variant, m.body, m.name, namingStyle) # <<>>

hasNoFields(m) == ~hasFields(m)

noFieldsMessages(ms) ==
  [i \in DOMAIN ms |-> "No valid fields found in class " \o ms[i].name \o "."]

\* the edit made from the text of its own range alone
editOfSpan(e) ==
  LET m == classRegexExec(SubSeq(classCode, e.start + 1, e.end), 0)
  IN  IF m.found
      THEN classTemplate(variant, m.name \o suffix,
                         fieldsOf(variant, m.body, m.name, namingStyle), FALSE)
      ELSE ""

\* the part of C2 that stands: one edit per matched class with a field, each
\* made from the text of its own class alone
EditPerClassWithFields(ms) ==
  /\ Len(edits) = Len(SelectSeq(ms, hasFields))
  /\ \A k \in DOMAIN edits : edits[k].newText = editOfSpan(edits[k])

\* C2 (as stated): for every multi-class input in which a class declaration
\* is matched, there is exactly one edit per matched class with a recognized
\* field, exactly one error diagnostic per matched class without, no other
\* diagnostic, and the edit of a class does not depend on the other classes.
C2_OneEditOrOneErrorPerClass ==
  (variant \in MultiClass /\ ScanOver /\ matchedClasses(classCode, 0) # <<>>)
    => LET ms == matchedClasses(classCode, 0)
       IN  /\ EditPerClassWithFields(ms)
           /\ diags = noFieldsMessages(SelectSeq(ms, hasNoFields))

\* C2 (amended): as stated, except that when no matched class has a
\* recognized field one more diagnostic, "No Dart class found to update.",
\* follows the diagnostics of the classes.
C2_OneEditOrOneErrorPerClassThenNoneFound ==
  (variant \in MultiClass /\ ScanOver /\ matchedClasses(classCode, 0) # <<>>)
    => LET ms == matchedClasses(classCode, 0)
       IN  /\ EditPerClassWithFields(ms)
           /\ diags = noFieldsMessages(SelectSeq(ms, hasNoFields))
                        \o (IF edits = <<>>
                            THEN <<"No Dart class found to update.">>
                            ELSE <<>>)

\* C2 witness: a class without fields before a class with one field gave one
\* diagnostic and one applied edit
C2_Witness ==
  /\ variant \in MultiClass
  /\ pc = "done"
  /\ diags = <<"No valid fields found in class B.">>
  /\ Len(applied) = 1
  /\ Len(units) = 1
  /\ units[1].className = "A"

\* the scanned text holds no class declaration the running variant matches
NoClassDeclaration ==
  /\ pc \in {"scan", "apply", "done"}
  /\ IF variant \in MultiClass
     THEN ~classRegexExec(classCode, 0).found
     ELSE ~classNameMatch(classCode, 1).found

NoClassMessages == {"No valid Dart class found.", "No Dart class found to update."}

\* C3: when the scanned text contains no class declaration, every variant
\* produces zero edits, reports an error diagnostic and leaves the document
\* text unchanged: the scan step ends the command with one more diagnostic,
\* and no step collects an edit or changes the document.
C3_NoClassNoEdit ==
  [][NoClassDeclaration
       => /\ doc' = doc
          /\ edits' = <<>>
          /\ applied' = <<>>
          /\ pc = "scan" => /\ pc' = "done"
                            /\ \E msg \in NoClassMessages : diags' = Append(diags, msg)]_vars

\* C3 witness: the command has ended on a text without a class declaration
C3_Witness ==
  /\ NoClassDeclaration
  /\ pc = "done"
  /\ scanned
  /\ Len(diags) = 1
  /\ diags[1] \in NoClassMessages

\* C4: for a class whose fields all have built-in types and no directives,
\* under every naming style, fromMap(toMap()) yields an instance whose every
\* field equals the original value, whatever the field names are.
C4_RoundTripLossless ==
  rtPc = "decoded" => back = inst

\* the text between "ClassName(" and the next ")", where ClassName starts a
\* word: the constructor parameter list as a reader of the text sees it
declaredParams(text, className) ==
  LET Opens(i) == /\ StartsWithAt(text, i, className)
                  /\ Ch(text, i - 1) \notin WordSet
                  /\ Ch(text, SpaceEnd(text, i + Len(className))) = "("
                  /\ IndexOf(text, ")", i) # 0
      i == First(1, Len(text), Opens)
  IN  IF i = 0 THEN [found |-> FALSE]
      ELSE [found |-> TRUE,
            text  |-> SubSeq(text, SpaceEnd(text, i + Len(className)) + 1,
                             IndexOf(text, ")", i) - 1)]

\* "required this.<name>" stands in the parameter list
requiredThis(params, name) ==
  \E i \in 1..Len(params) :
    /\ StartsWithAt(params, i, "required")
    /\ SpaceEnd(params, i + 8) > i + 8
    /\ StartsWithAt(params, SpaceEnd(params, i + 8), "this." \o name)
    /\ Ch(params, SpaceEnd(params, i + 8) + 5 + Len(name)) \notin WordSet

\* C5: in the constructor-aware variant, when the text holds a constructor
\* parameter list for the class name, a field is nullable exactly when
\* "required this.<field>" is absent from that list, whatever the ? marker
\* on its type says.
C5_NullableFromConstructor ==
  (variant = "ctor" /\ ScanOver)
    => \A k \in DOMAIN units :
         LET params == declaredParams(classCode, units[k].className)
         IN  params.found
               => \A i \in DOMAIN units[k].fields :
                    units[k].fields[i].nullable
                      = ~requiredThis(params.text, units[k].fields[i].name)

\* the variants that read directives from comments
DirectiveAware == {"single", "lines", "multi"}

\* a comment line without its "//" and the white space around it, "" for a
\* line that is no comment
directiveOf(line) ==
  IF startsWith(trim(line), "//") THEN trim(SubSeq(trim(line), 3, Len(trim(line)))) ELSE ""

isComment(line) == startsWith(trim(line), "//")

\* the directives written for the field name in text: the comment that
\* trails its declaration and the comment lines directly below and directly
\* above the declaration line
directivesOf(text, name) ==
  LET lines == split(text)
      Declares(i) == includes(lines[i], " " \o name \o ";")
      d == First(1, Len(lines), Declares)
      semi == IndexOf(lines[d], name \o ";", 1) + Len(name)
      trailing == SubSeq(lines[d], semi + 1, Len(lines[d]))
      Below(i) == \A j \in (d + 1)..i : isComment(lines[j])
      Above(i) == \A j \in i..(d - 1) : isComment(lines[j])
  IN  IF d = 0 THEN {}
      ELSE ({directiveOf(trailing)}
            \cup {directiveOf(lines[i]) : i \in {j \in (d + 1)..Len(lines) : Below(j)}}
            \cup {directiveOf(lines[i]) : i \in {j \in 1..(d - 1) : Above(j)}})
           \ {""}

\* the directive that trails the declaration of name on its own line
trailingDirective(text, name) ==
  LET lines == split(text)
      Declares(i) == includes(lines[i], " " \o name \o ";")
      d == First(1, Len(lines), Declares)
      semi == IndexOf(lines[d], name \o ";", 1) + Len(name)
  IN  IF d = 0 THEN "" ELSE directiveOf(SubSeq(lines[d], semi + 1, Len(lines[d])))

isEnumDirective(l) == startsWith(l, "Type: enum")

isParsingDirective(l) == startsWith(l, "Parsing:") /\ includes(l, ",")

\* <fromExpr> and <toExpr> of "Parsing: <fromExpr>, <toExpr>"
fromExprOf(l) == trim(SubSeq(l, 9, LastComma(l, 9, Len(l) + 1) - 1))

toExprOf(l) == trim(SubSeq(l, LastComma(l, 9, Len(l) + 1) + 1, Len(l)))

\* s with every occurrence of p replaced
RECURSIVE replaceEvery(_, _, _)
replaceEvery(s, p, by) ==
  LET i == IndexOf(s, p, 1)
  IN  IF i = 0 THEN s
      ELSE SubSeq(s, 1, i - 1) \o by
             \o replaceEvery(SubSeq(s, i + Len(p), Len(s)), p, by)

decodeWith(f, expr) == f.name \o ": " \o expr \o ","

encodeWith(f, expr) == "'" \o f.snakeName \o "': " \o expr \o ","

\* C6: for a field whose comment carries both a "Type: enum" directive and a
\* "Parsing: <fromExpr>, <toExpr>" directive, one per comment line, the
\* fromMap entry is built from fromExpr and the toMap entry from toExpr; the
\* enum calls <name>FromString / <name>ToString are not emitted for it.
C6_CustomParsingBeatsEnum ==
  (variant \in DirectiveAware /\ ScanOver)
    => \A k \in DOMAIN units : \A i \in DOMAIN units[k].fields :
         LET f  == units[k].fields[i]
             ds == directivesOf(classCode, f.name)
         IN  \A e \in ds : \A p \in ds :
               (isEnumDirective(e) /\ isParsingDirective(p))
                 => /\ units[k].fromMap[i]
                         = decodeWith(f, replaceEvery(fromExprOf(p), "value", mapAccess(f)))
                    /\ units[k].toMap[i]
                         = encodeWith(f, replaceEvery(toExprOf(p), "value", f.name))
                    /\ ~includes(units[k].fromMap[i], "FromString(")
                    /\ ~includes(units[k].toMap[i], "ToString(")

\* C7: for a field with a Parsing directive, the decode expression is
\* fromExpr with every occurrence of "value" replaced by map['<converted>']
\* and the encode expression is toExpr with every occurrence of "value"
\* replaced by the field name, nothing else changed.
C7_EveryPlaceholderReplaced ==
  (variant \in DirectiveAware /\ ScanOver)
    => \A k \in DOMAIN units : \A i \in DOMAIN units[k].fields :
         LET f == units[k].fields[i]
         IN  f.customParsing.has
               => /\ units[k].fromMap[i]
                       = decodeWith(f, replaceEvery(f.customParsing.fromJson, "value",
                                                    mapAccess(f)))
                  /\ units[k].toMap[i]
                       = encodeWith(f, replaceEvery(f.customParsing.toJson, "value",
                                                    f.name))

\* C8: for a field declared as "final <T> <name>; // Type: enum" with no
\* Parsing directive, the decode expression is
\* <name>FromString(map['<converted>']) and the encode expression is
\* <name>ToString(<name>), in every directive-aware variant.
C8_TrailingEnumDirective ==
  (variant \in DirectiveAware /\ ScanOver)
    => \A k \in DOMAIN units : \A i \in DOMAIN units[k].fields :
         LET f == units[k].fields[i]
         IN  (/\ isEnumDirective(trailingDirective(classCode, f.name))
              /\ \A p \in directivesOf(classCode, f.name) : ~isParsingDirective(p))
               => /\ units[k].fromMap[i]
                       = decodeWith(f, f.name \o "FromString(" \o mapAccess(f) \o ")")
                  /\ units[k].toMap[i]
                       = encodeWith(f, f.name \o "ToString(" \o f.name \o ")")

\* the names of a field list, in its order
namesOf(fields) == [i \in DOMAIN fields |-> fields[i].name]

\* the text from the first "class" keyword on
fromClassKeyword(text) == SubSeq(text, IndexOf(text, "class", 1), Len(text))

\* C11: in single-class mode the fields of the generated class are extracted
\* only from the text that follows the first "class" keyword; a declaration
\* "Type name;" before that keyword never becomes a field.
C11_FieldsOnlyAfterClassKeyword ==
  (variant \notin MultiClass /\ ScanOver /\ units # <<>>)
    => namesOf(units[1].fields) = namesOf(fieldMatches(fromClassKeyword(classCode)))

\* the text the k-th generated class was made from: the scanned text in
\* single-class mode, the span of the class in the scanned text otherwise
sourceOf(k) ==
  IF variant \in MultiClass
  THEN SubSeq(classCode, edits[k].start + 1, edits[k].end)
  ELSE classCode

\* where the declaration of field f stands in text, 0 when it does not
declaredAt(text, f) == IndexOf(text, f.type \o " " \o f.name \o ";", 1)

\* where the generated class declares field f, 0 when it does not
emittedAt(newText, f) == IndexOf(newText, "final " \o f.type \o " " \o f.name \o ";", 1)

\* the fields are in declaration order and the generated declarations,
\* fromMap, toMap and toString entries list each field once in that order
ListedOnceInOrder(k) ==
  LET u  == units[k]
      fs == u.fields
      nt == edits[k].newText
  IN  /\ Len(u.ctor) = Len(fs)
      /\ Len(u.fromMap) = Len(fs)
      /\ Len(u.toMap) = Len(fs)
      /\ Len(u.toStr) = Len(fs)
      /\ \A i \in DOMAIN fs :
           /\ declaredAt(sourceOf(k), fs[i]) > 0
           /\ emittedAt(nt, fs[i]) > 0
           /\ IndexOf(nt, "final " \o fs[i].type \o " " \o fs[i].name \o ";",
                      emittedAt(nt, fs[i]) + 1) = 0
           /\ startsWith(u.fromMap[i], fs[i].name \o ": ")
           /\ includes(u.fromMap[i], mapAccess(fs[i]))
           /\ includes(u.toMap[i], "'" \o fs[i].snakeName \o "': ")
           /\ includes(u.toMap[i], fs[i].name)
           /\ u.toStr[i] = fs[i].name \o ": $" \o fs[i].name
      /\ \A i, j \in DOMAIN fs :
           i < j => /\ declaredAt(sourceOf(k), fs[i]) < declaredAt(sourceOf(k), fs[j])
                    /\ emittedAt(nt, fs[i]) < emittedAt(nt, fs[j])

parameterOf(f, required) ==
  (IF required THEN "required " ELSE "") \o "this." \o f.name \o ","

\* C12 (as stated): the generated constructor has one parameter per field in
\* declaration order, marked required exactly when the declared type has no
\* trailing "?", and the generated declarations, fromMap, toMap and toString
\* entries each list every field exactly once in that order.
C12_RequiredIffNoQuestionMark ==
  ScanOver
    => \A k \in DOMAIN units :
         /\ ListedOnceInOrder(k)
         /\ \A i \in DOMAIN units[k].fields :
              units[k].ctor[i]
                = parameterOf(units[k].fields[i], ~endsWith(units[k].fields[i].type, "?"))

\* the class declaration the k-th edit was generated from
declarationOf(k) == SubSeq(classCode, edits[k].start + 1, edits[k].end)

\* the document text the range of the k-th edit covers
coveredBy(k) ==
  SubSeq(doc, Min2(edits[k].start, Len(doc)) + 1, Min2(edits[k].end, Len(doc)))

\* the scanned text is a selection that does not start at offset 0
SelectionScanned == trim(getText(doc, sel)) # "" /\ sel.start > 0

\* C13: in multi-class mode, when editor.edit is called, the range of each
\* edit covers in the document exactly the class declaration the edit was
\* generated from, whether the scanned text is the whole document or a
\* non-empty selection that does not start at offset 0 (so the text outside
\* the matched declarations is left unchanged).
C13_RangeIsSpanInDocument ==
  (variant \in MultiClass /\ pc = "apply")
    => \A k \in DOMAIN edits : coveredBy(k) = declarationOf(k)

\* C14: the multi-class scan loop terminates and yields disjoint class spans
\* in strictly increasing offset order: every iteration that stays in the
\* loop matches a class at or after lastIndex and moves lastIndex, which never
\* exceeds the length of the text, to the end of that class span; the span
\* starts with the class keyword and ends at the first "}" that follows its
\* opening brace; and the spans collected in edits are non-empty, disjoint
\* and in increasing order.
C14_ScanAdvancesOverDisjointSpans ==
  [][ (pc = "scan" /\ pc' = "scan" /\ variant \in MultiClass)
        => LET m    == classRegexExec(classCode, lastIndex)
               span == SubSeq(classCode, m.index + 1, lastIndex')
               ob   == IndexOf(span, "{", 1)
           IN  /\ m.found
               /\ lastIndex <= m.index
               /\ m.index < lastIndex'
               /\ lastIndex' <= Len(classCode)
               /\ startsWith(span, "class")
               /\ ob > 0
               /\ IndexOf(span, "}", ob) = Len(span)
               /\ m.body = SubSeq(span, ob + 1, Len(span) - 1)
               /\ \A k \in DOMAIN edits' :
                    /\ edits'[k].start < edits'[k].end
                    /\ edits'[k].end <= lastIndex'
                    /\ k > 1 => edits'[k - 1].end <= edits'[k].start ]_vars

\* C14 witness: the loop has ended after it yielded two class spans, the
\* second after the first
C14_Witness ==
  /\ variant \in MultiClass
  /\ pc = "apply"
  /\ Len(edits) = 2
  /\ edits[1].end <= edits[2].start
  /\ lastIndex = edits[2].end
  /\ ~classRegexExec(classCode, lastIndex).found

\* C15: a directive written in the comment of one field affects only that
\* field: a field with no comment of its own, also one whose name ends the
\* name of a commented field, has isEnum = false and no custom parsing.
C15_DirectiveIsolation ==
  (variant \in DirectiveAware /\ ScanOver)
    => \A k \in DOMAIN units : \A i \in DOMAIN units[k].fields :
         directivesOf(classCode, units[k].fields[i].name) = {}
           => /\ ~units[k].fields[i].isEnum
              /\ ~units[k].fields[i].customParsing.has

----------------------------------------------------------------------------
(* The command while the user goes on editing: showInputBox and             *)
(* showQuickPick are awaited, and the host editor stays usable meanwhile    *)

\* how often the user changes the document during one run of the command
MaxUserEdits == 1

\* what the user types
UserTexts == {"// note\n"}

\* the user types a line at the start or at the end of the document while
\* the input box or the quick pick is open; classCode, read before the
\* prompts, stays as it is
UserEdit ==
  /\ pc \in {"suffix", "style"}
  /\ userEdits < MaxUserEdits
  /\ \E t \in UserTexts : \E at \in {0, Len(doc)} :
       doc' = replaceRange(doc, at, at, t)
  /\ userEdits' = userEdits + 1
  /\ UNCHANGED <<variant, editor, sel, pc, classCode, suffix, namingStyle,
                 lastIndex, edits, diags, units, dismissed, scanned, applied,
                 convVars, rtVars>>

\* the documents the command is invoked on, no selection
EditScenarios ==
  { Whole("void main() {}\n"),
    Whole("class B {\n}\n"),
    Whole("class A {\n  final int x;\n}\n\nclass B {\n}\n") }

InitEdit == CmdInit(EditScenarios)

NextEdit == Next \/ UserEdit

SpecEdit == InitEdit /\ [][NextEdit]_vars

\* the text the command would scan if it read the document now
currentText ==
  IF trim(getText(doc, sel)) # "" THEN trim(getText(doc, sel)) ELSE doc

\* C16: when editor.edit is called, the edits are computed from the document
\* as it is then: the text they were generated from is the current text, and
\* each range covers in the document what the edit replaces (the class
\* declaration in multi-class mode, the whole document otherwise), also when
\* the user changed the document while a prompt was open.
C16_EditsFromCurrentDocument ==
  pc = "apply"
    => /\ classCode = currentText
       /\ \A k \in DOMAIN edits :
            coveredBy(k) = IF variant \in MultiClass THEN declarationOf(k) ELSE doc

----------------------------------------------------------------------------
(* The converter harness: convertCase applied once and twice to every       *)
(* identifier of up to MaxLen characters                                    *)

IdentAlphabet == {"a", "b", "B", "_", "1"}

RECURSIVE StringsOfLen(_)
StringsOfLen(n) ==
  IF n = 0 THEN {""}
  ELSE {s \o c : s \in StringsOfLen(n - 1), c \in IdentAlphabet}

Identifiers ==
  UNION {StringsOfLen(n) : n \in 1..MaxLen} \cup {"user_id", "UserId", "userId"}

\* the command is not running in the converter harness
CmdOff ==
  /\ variant = "single"
  /\ editor = FALSE
  /\ doc = ""
  /\ sel = [start |-> 0, end |-> 0]
  /\ pc = "off"
  /\ classCode = ""
  /\ suffix = ""
  /\ namingStyle = ""
  /\ lastIndex = 0
  /\ edits = <<>>
  /\ diags = <<>>
  /\ units = <<>>
  /\ dismissed = {}
  /\ scanned = FALSE
  /\ applied = <<>>
  /\ userEdits = 0

ConvInit ==
  /\ CmdOff
  /\ RtOff
  /\ convIn \in Identifiers
  /\ convStyle \in Styles
  /\ convOut = ""
  /\ convOut2 = ""
  /\ convPc = "in"

ConvertOnce ==
  /\ convPc = "in"
  /\ convOut' = convertCase(convStyle, convIn)
  /\ convPc' = "once"
  /\ UNCHANGED <<convIn, convStyle, convOut2, cmdVars, rtVars, envVars>>

ConvertTwice ==
  /\ convPc = "once"
  /\ convOut2' = convertCase(convStyle, convOut)
  /\ convPc' = "twice"
  /\ UNCHANGED <<convIn, convStyle, convOut, cmdVars, rtVars, envVars>>

ConvNext == ConvertOnce \/ ConvertTwice

SpecConvert == ConvInit /\ [][ConvNext]_vars

----------------------------------------------------------------------------
(* Claims about the converter (checked under SpecConvert) *)

NoUnderscoreRun(x) == ~includes(x, "__")

\* the styles and inputs on which a second conversion changes nothing
SingleBoundary(style, x) ==
  \/ style \in {"snake_case", "kebab-case", "original"}
  \/ style = "camelCase" /\ NoUnderscoreRun(x)
  \/ style = "PascalCase" /\ NoUnderscoreRun(x) /\ Ch(x, 1) # "_"

\* C9 (as stated): for every style and every identifier x,
\* convert(convert(x)) = convert(x).
C9_IdempotentEverywhere ==
  convPc = "twice" => convOut2 = convOut

\* C9 (amended): convert(convert(x)) = convert(x) for snake_case, kebab-case
\* and original on every identifier, for camelCase on every identifier with
\* no two consecutive underscores, and for PascalCase on every identifier
\* with no two consecutive underscores and no leading underscore; and
\* snake_case(user_id) = user_id, PascalCase(UserId) = UserId.
C9_IdempotentOnSingleBoundary ==
  /\ (convPc = "twice" /\ SingleBoundary(convStyle, convIn)) => convOut2 = convOut
  /\ (convPc # "in" /\ convStyle = "snake_case" /\ convIn = "user_id")
        => convOut = "user_id"
  /\ (convPc # "in" /\ convStyle = "PascalCase" /\ convIn = "UserId")
        => convOut = "UserId"

\* C9 witness: a camelCase conversion that changed its input and is then stable
C9_Witness ==
  /\ convPc = "twice"
  /\ convStyle = "camelCase"
  /\ convIn = "a_b"
  /\ convOut = "aB"
  /\ convOut2 = "aB"

\* PascalCase as the specification words it: the first character and the
\* character after every underscore uppercased, every underscore dropped
RECURSIVE PascalCaseDocumentedFrom(_, _)
PascalCaseDocumentedFrom(x, i) ==
  IF i > Len(x) THEN ""
  ELSE (IF Ch(x, i) = "_" THEN ""
        ELSE IF i = 1 \/ Ch(x, i - 1) = "_" THEN toUpperCase(Ch(x, i))
        ELSE Ch(x, i))
       \o PascalCaseDocumentedFrom(x, i + 1)

\* C10: for every identifier the PascalCase converter returns the input with
\* its first character uppercased, the character after every underscore
\* uppercased and all underscores removed (no "_" in the result).
C10_PascalDropsEveryUnderscore ==
  (convPc # "in" /\ convStyle = "PascalCase")
    => /\ convOut = PascalCaseDocumentedFrom(convIn, 1)
       /\ ~includes(convOut, "_")

=============================================================================
